---- MODULE Spec2Model ----
(***************************************************************************)
(* Nested hyper-parameter optimization and assessment                      *)
(* (source/workflows/processes/HPOptimizationProcess.py).                  *)
(*                                                                         *)
(* A Dataset is modelled by its sample set (its filenames).  A performance *)
(* record is a function from label names to rationals <<num, den>>.  The   *)
(* collaborators whose code is outside the modelled sources (DataSplitter, *)
(* the search strategy, MLProcess, DataEncoder, MLMethodTrainer,           *)
(* MLMethodAssessment, the reports) follow the design document.            *)
(***************************************************************************)
EXTENDS FiniteSets, Integers, Sequences, TLC

\* ---------------------------------------------------------------- bounds
NumSamples == 3
MaxAssessmentSplitCount == 2
MaxSelectionSplitCount == 2
MaxSettings == 2
\* outer folds x candidate settings x inner folds of one run
MaxRuns == 7
\* switches between outer folds running in parallel
MaxSwitches == 2
\* filenames in a list given to a Dataset; calls made on one Dataset object
MaxFiles == 2
MaxCalls == 2

\* ------------------------------------------------------ program constants
AssessmentTrainingPercentage == 70
SelectionTrainingPercentage == 70

Labels == {"CD"}
None == 0
HPSettings == 1 .. MaxSettings
\* A metric value is a rational in [0, 1]; the steps draw it from its two ends.
MetricValues == {<<0, 1>>, <<1, 1>>}

VARIABLES
    pc,                \* control location of the process
    dataset,           \* self.dataset
    assessment,        \* self.assessment (SplitConfig)
    selection,         \* self.selection (SplitConfig)
    hp_settings,       \* self.hp_settings
    hp_strategy,       \* self.hp_strategy (one object for the whole run)
    encoders,          \* hp_setting.encoder, per setting: its fitted state
    ml_methods,        \* hp_setting.ml_method, per setting: its fitted state
    assessment_frame,  \* locals of run_assessment
    fold_frame,        \* locals of run_assessment_fold
    selection_frame,   \* locals of run_selection
    setting_frame,     \* locals of test_hp_setting
    returned,          \* value returned by run(): <<>> or <<list>>
    printed,           \* print_performances has written the summary
    error,             \* the exception that left run(): <<>> or <<record>>
    trace,             \* steps of the current outer fold completed so far
    parked,            \* outer folds started but not running (pc, frames, trace of each),
                       \* and the number of switches between folds so far
    report_objects,    \* the report objects of the two SplitConfigs: their fields
    history,           \* observations of the run (see the fields in Init)
    label_configuration, \* a LabelConfiguration: registered label name -> its values
    encode_result,     \* outcome of MatchedReceptorsRepertoireEncoder.encode (<<>>: not called)
    arguments,         \* the arguments __init__ was called with (<<>>: not recorded)
    attributes,        \* names of the fields of self that __init__ has assigned
    \* Dataset objects and the repertoire files they name
    dataset_object,    \* a Dataset object: its fields
    caller_filenames,  \* the list the caller passed as filenames, as the caller holds it
    files,             \* the file system: per path the repertoire stored there, or NoFile
    fold_datasets,     \* the Dataset objects the loops work on: what the splitter
                       \* returned and what the encoder returned
    processed,         \* what DatasetChainFilter.process returned: <<>> or <<Dataset>>
    object_calls       \* number of calls made on the Dataset object so far

process_vars == <<pc, dataset, assessment, selection, hp_settings, hp_strategy, encoders,
                  ml_methods, assessment_frame, fold_frame, selection_frame, setting_frame,
                  returned, printed, error, trace, parked, report_objects, history,
                  arguments, attributes>>

construction_vars == <<arguments, attributes>>

dataset_vars == <<dataset_object, caller_filenames, files, fold_datasets, processed, object_calls>>

label_vars == <<label_configuration, encode_result>>

vars == <<process_vars, dataset_vars, label_vars>>

\* ------------------------------------------------------------ rationals
RatAdd(a, b) == <<a[1] * b[2] + b[1] * a[2], a[2] * b[2]>>
RatDiv(a, n) == <<a[1], a[2] * n>>
RatEq(a, b) == a[1] * b[2] = b[1] * a[2]
RatLess(a, b) == a[1] * b[2] < b[1] * a[2]

RECURSIVE SumSeq(_, _)
SumSeq(seq, label) ==
    IF seq = <<>> THEN <<0, 1>>
    ELSE RatAdd(Head(seq)[label], SumSeq(Tail(seq), label))

RECURSIVE SeqUnion(_)
SeqUnion(seq) == IF seq = <<>> THEN {} ELSE Head(seq) \cup SeqUnion(Tail(seq))

Range(seq) == {seq[i] : i \in DOMAIN seq}

\* ------------------------------------------------------------- SplitConfig
ReportConfig(dsr, dr, omr, mr, pr) ==
    [data_split_reports |-> dsr, data_reports |-> dr, optimal_model_reports |-> omr,
     model_reports |-> mr, performance_reports |-> pr]

SplitConfig(count, percentage, reports) ==
    [split_strategy |-> "random", split_count |-> count,
     training_percentage |-> percentage, label_to_balance |-> None, reports |-> reports]

\* --------------------------------------------------------------- splitter
TrainCount(n, percentage) == (n * percentage) \div 100

SplitPairs(ds, percentage) ==
    {[train |-> t, test |-> ds \ t] :
        t \in {s \in SUBSET ds : Cardinality(s) = TrainCount(Cardinality(ds), percentage)}}

ValidSplit(ds, split_config) ==
    LET k == TrainCount(Cardinality(ds), split_config.training_percentage)
    IN  k >= 1 /\ k < Cardinality(ds)

DataSplitterRun(ds, split_config) ==
    {[train_datasets |-> [i \in 1 .. split_config.split_count |-> f[i].train],
      test_datasets |-> [i \in 1 .. split_config.split_count |-> f[i].test]] :
        f \in [1 .. split_config.split_count -> SplitPairs(ds, split_config.training_percentage)]}

split_data_WholeDataset(ds, split_config) == DataSplitterRun(dataset, split_config)
split_data(ds, split_config) == DataSplitterRun(ds, split_config)

\* ------------------------------------------------------- search strategy
GridSearch(candidates) ==
    [state |-> "NotStarted", remaining |-> candidates, recorded |-> <<>>]

RemoveFirst(seq, x) == SelectSeq(seq, LAMBDA y : y # x)

get_next_setting(strategy, args) ==
    LET recorded == IF args = <<>> THEN strategy.recorded
                    ELSE Append(strategy.recorded,
                                [hp_setting |-> args[1], performance |-> args[2]])
        remaining == IF args = <<>> THEN strategy.remaining
                     ELSE RemoveFirst(strategy.remaining, args[1])
        result == IF remaining = <<>> THEN None ELSE Head(remaining)
    IN  [strategy |-> [state |-> IF result = None THEN "Exhausted" ELSE "InProgress",
                       remaining |-> remaining, recorded |-> recorded],
         result |-> result]

PrimaryLabel == "CD"

RECURSIVE BestIndex(_, _, _)
BestIndex(recorded, i, best) ==
    IF i > Len(recorded) THEN best
    ELSE IF RatLess(recorded[best].performance[PrimaryLabel],
                    recorded[i].performance[PrimaryLabel])
         THEN BestIndex(recorded, i + 1, i)
         ELSE BestIndex(recorded, i + 1, best)

\* The answer leaves the strategy as it was; before exhaustion it is an error.
get_optimal_hps(strategy) ==
    [strategy |-> strategy,
     error |-> IF strategy.state # "Exhausted" THEN <<"IllegalStateError">> ELSE <<>>,
     result |-> IF strategy.state # "Exhausted" \/ strategy.recorded = <<>> THEN None
                ELSE strategy.recorded[BestIndex(strategy.recorded, 1, 1)].hp_setting]

\* ------------------------------------------------------------------ paths
\* A run directory that also depends on which call of run() is under way.
AssessmentPath_PerCall(run) == <<"assessment_random", run, history.runs>>
AssessmentPath(run) == <<"assessment_random", run>>
SelectionPath(current_path) == current_path \o <<"selection_random">>
SettingPath_NoFold(current_path, hp_setting, run_id) == current_path \o <<hp_setting>>
SettingPath(current_path, hp_setting, run_id) == current_path \o <<hp_setting, run_id>>

\* Files and directories the steps of an outer fold write under its current_path.
EncodedFilename(learn_model) == IF learn_model THEN "train_dataset.pkl" ELSE "test_dataset.pkl"
OptimalMethodPath(current_path) == current_path \o <<"optimal", "ml_method">>
PredictionsPath(current_path) == current_path \o <<"predictions.csv">>
MLDetailsPath(current_path) == current_path \o <<"ml_details.csv">>

\* A write of `path` made on behalf of (outer fold, setting, inner fold); None where the
\* write belongs to the outer fold as a whole.
Write(run, hp_setting, run_id, path) ==
    [run |-> run, hp_setting |-> hp_setting, run_id |-> run_id, path |-> path]

\* --------------------------------------------------------- error handling
\* What the process adds to an exception that passes through run_setting,
\* test_hp_setting, run_selection, run_assessment_fold, run_assessment and run: there is
\* no except clause on the way, the exception leaves as the callee raised it.
AttachedContext(run, hp_setting) == {}

\* kind: the error; step, run, hp_setting: where it was raised (0 / None outside an outer
\* fold / a setting); context: what the error value carries when it reaches the caller.
Exception(kind, step, run, hp_setting) ==
    <<[kind |-> kind, step |-> step, run |-> run, hp_setting |-> hp_setting,
       context |-> AttachedContext(run, hp_setting)]>>
NoFrame == <<>>

\* --------------------------------------------------------- encoder, method
NotFitted == [fitted_on |-> {}, result_path |-> <<>>]

DataEncoderRun(ds, encoder_state, result_path, learn_model) ==
    LET model == IF learn_model THEN [fitted_on |-> ds, result_path |-> result_path]
                 ELSE encoder_state
    IN  [encoder |-> model,
         dataset |-> [samples |-> ds, encoded_with |-> model, learn_model |-> learn_model]]

EncodeTrainLearnModel == TRUE
EncodeTestLearnModel_Refit == TRUE
EncodeTestLearnModel == FALSE

\* learn_model is not passed on: the encoder fits on every call.
encode_dataset_AlwaysLearn(ds, hp_setting, path, learn_model) ==
    DataEncoderRun(ds, encoders[hp_setting], path, TRUE)

encode_dataset(ds, hp_setting, path, learn_model) ==
    DataEncoderRun(ds, encoders[hp_setting], path, learn_model)

MLMethodTrainerRun(encoded_dataset, hp_setting) ==
    [hp_setting |-> hp_setting, fitted_on |-> encoded_dataset.samples,
     encoded_with |-> encoded_dataset.encoded_with]

\* The method as the inner folds left it, without a new fit.
train_optimal_method_ReuseInner(encoded_dataset, hp_setting) == ml_methods[hp_setting]

train_optimal_method(encoded_dataset, hp_setting) ==
    MLMethodTrainerRun(encoded_dataset, hp_setting)

PerformanceRecords == [Labels -> MetricValues]

get_average_performance_FirstOnly(metrics_per_label) ==
    [label \in Labels |-> RatDiv(Head(metrics_per_label)[label], 1)]

get_average_performance(metrics_per_label) ==
    [label \in Labels |-> RatDiv(SumSeq(metrics_per_label, label), Len(metrics_per_label))]


\* ------------------------------------------------------------- MLProcess
MLProcessRun(hp_setting, train_dataset, test_dataset, path) ==
    LET learnt == DataEncoderRun(train_dataset, encoders[hp_setting], path, TRUE)
        method == MLMethodTrainerRun(learnt.dataset, hp_setting)
        applied == DataEncoderRun(test_dataset, learnt.encoder, path, FALSE)
    IN  [encoder |-> learnt.encoder, method |-> method, path |-> path,
         learnt_on |-> train_dataset, assessed_on |-> applied.dataset.samples]

\* ---------------------------------------------------------------- reports
DataReportCall(report, ds, path) ==
    [kind |-> "data", report |-> report, dataset |-> ds, path |-> path]

ModelReportCall(report, train_dataset, test_dataset, method, path) ==
    [kind |-> "model", report |-> report, dataset |-> train_dataset \cup test_dataset,
     train_dataset |-> train_dataset, test_dataset |-> test_dataset, method |-> method,
     path |-> path]

PerformanceReportCall(report, train_dataset, test_dataset, method, path) ==
    [kind |-> "performance", report |-> report, dataset |-> train_dataset \cup test_dataset,
     train_dataset |-> train_dataset, test_dataset |-> test_dataset, method |-> method,
     path |-> path]

\* The invocations of nested report loops, in the order the loops make them.
RECURSIVE Concat(_)
Concat(seqs) == IF seqs = <<>> THEN <<>> ELSE Head(seqs) \o Concat(Tail(seqs))

run_assessment_reports(reports, train_dataset, test_dataset, method, path) ==
    Concat([i \in 1 .. Len(reports.data_split_reports) |->
               <<DataReportCall(reports.data_split_reports[i], train_dataset, path \o <<"train">>),
                 DataReportCall(reports.data_split_reports[i], test_dataset, path \o <<"test">>)>>])
    \o [i \in 1 .. Len(reports.optimal_model_reports) |->
           ModelReportCall(reports.optimal_model_reports[i], train_dataset, test_dataset,
                           method, path)]
    \o [i \in 1 .. Len(reports.performance_reports) |->
           PerformanceReportCall(reports.performance_reports[i], train_dataset, test_dataset,
                                 method, path)]

SplitReportCalls(report, train_datasets, test_datasets, path) ==
    Concat([i \in 1 .. Len(train_datasets) |->
               <<DataReportCall(report, train_datasets[i], path \o <<"split", i, "train">>),
                 DataReportCall(report, test_datasets[i], path \o <<"split", i, "test">>)>>])

\* The data reports on the whole dataset come before the data-split reports.
run_selection_reports_DataReportsFirst(reports, ds, train_datasets, test_datasets, path) ==
    [i \in 1 .. Len(reports.data_reports) |-> DataReportCall(reports.data_reports[i], ds, path)]
    \o Concat([i \in 1 .. Len(reports.data_split_reports) |->
                  SplitReportCalls(reports.data_split_reports[i], train_datasets,
                                   test_datasets, path)])

run_selection_reports(reports, ds, train_datasets, test_datasets, path) ==
    Concat([i \in 1 .. Len(reports.data_split_reports) |->
               SplitReportCalls(reports.data_split_reports[i], train_datasets, test_datasets,
                                path)])
    \o [i \in 1 .. Len(reports.data_reports) |->
           DataReportCall(reports.data_reports[i], ds, path)]

\* A report object as the configuration holds it: nothing of a fold is set on it.
Reports == {"rep1", "rep2", "rep3"}
ConfiguredReport ==
    [dataset |-> {}, train_dataset |-> {}, test_dataset |-> {}, method |-> None,
     path |-> <<>>]

\* run_data_report and run_model_report: `objects` are the configured report objects;
\* the result has them as the call leaves them, and the report object generate_report
\* ran on.
run_data_report_OnConfiguredObject(objects, call) ==
    LET report == [objects[call.report] EXCEPT !.dataset = call.dataset, !.path = call.path]
    IN  [objects |-> [objects EXCEPT ![call.report] = report], generated |-> report]

run_data_report(objects, call) ==
    LET tmp_report == [objects[call.report] EXCEPT !.dataset = call.dataset,
                                                   !.path = call.path]
    IN  [objects |-> objects, generated |-> tmp_report]

run_model_report(objects, call) ==
    LET tmp_report == [objects[call.report] EXCEPT !.train_dataset = call.train_dataset,
                                                   !.test_dataset = call.test_dataset,
                                                   !.method = call.method,
                                                   !.path = call.path]
    IN  [objects |-> objects, generated |-> tmp_report]

\* The invocations `calls` made one after the other.
RECURSIVE RunReports(_, _, _)
RunReports(objects, calls, generated) ==
    IF calls = <<>> THEN [objects |-> objects, generated |-> generated]
    ELSE LET ran == IF Head(calls).kind = "data" THEN run_data_report(objects, Head(calls))
                    ELSE run_model_report(objects, Head(calls))
         IN  RunReports(ran.objects, Tail(calls), Append(generated, ran.generated))

\* A report invocation that always raises (run_performance_report).
AlwaysRaises(call) == call.kind = "performance"

ReportError(call) ==
    IF AlwaysRaises(call) THEN "NotImplementedError" ELSE "ReportGenerationError"

\* The invocations of `calls` run in order until one raises: the positions at which the
\* handler can stop (Len + 1: every invocation returned).
StopPositions(calls) ==
    {f \in 1 .. Len(calls) + 1 : \A i \in 1 .. f - 1 : ~AlwaysRaises(calls[i])}

\* ------------------------------------------------------------ control flow
FoldSteps_TestEncodedBeforeTraining ==
    <<"run_selection", "encode_train", "encode_test", "train_optimal_method",
      "assess_performance", "run_assessment_reports">>

FoldSteps ==
    <<"run_selection", "encode_train", "train_optimal_method", "encode_test",
      "assess_performance", "run_assessment_reports">>

StepIndex(step) == CHOOSE i \in DOMAIN FoldSteps : FoldSteps[i] = step

After(step) ==
    IF StepIndex(step) < Len(FoldSteps) THEN FoldSteps[StepIndex(step) + 1] ELSE "fold_return"

\* The fold loop swallows the exception and goes on.
ErrorTarget_Continue(step) == "loop"

\* No handler between the failing call and the caller of run(): the exception leaves run().
ErrorTarget(step) == "failed"

FoldArgs_Misaligned(index) ==
    [train_dataset |-> assessment_frame.train_datasets[index + 1],
     test_dataset |-> assessment_frame.test_datasets[1],
     run |-> index + 1]

\* Outer folds after the first are selected and trained on their test part.
FoldArgs_LaterFoldsTrainOnTest(index) ==
    [train_dataset |-> IF index = 0 THEN assessment_frame.train_datasets[index + 1]
                       ELSE assessment_frame.test_datasets[index + 1],
     test_dataset |-> assessment_frame.test_datasets[index + 1],
     run |-> index + 1]

FoldArgs(index) ==
    [train_dataset |-> assessment_frame.train_datasets[index + 1],
     test_dataset |-> assessment_frame.test_datasets[index + 1],
     run |-> index + 1]

\* The second candidate is tested on the inner folds in reverse order.
SettingArgs_FoldsDependOnSetting(index) ==
    LET i == IF selection_frame.hp_setting = 2 THEN selection.split_count - index
             ELSE index + 1
    IN  [train_dataset |-> selection_frame.train_datasets[i],
         test_dataset |-> selection_frame.test_datasets[i],
         run_id |-> index + 1]

SettingArgs(index) ==
    [train_dataset |-> selection_frame.train_datasets[index + 1],
     test_dataset |-> selection_frame.test_datasets[index + 1],
     run_id |-> index + 1]

FirstCallArgs == <<>>
NextCallArgs_FirstSetting(hp_setting, performance) == <<1, performance>>
NextCallArgs_NoFeedback(hp_setting, performance) == <<>>
NextCallArgs(hp_setting, performance) == <<hp_setting, performance>>

\* The training percentage of the configuration, and the one that leaves no test sample.
AssessmentTrainingPercentages == {AssessmentTrainingPercentage, 100}
SelectionTrainingPercentages == {SelectionTrainingPercentage, 100}

AssessmentConfigs(split_count) ==
    {SplitConfig(split_count, percentage,
                 ReportConfig(<<"rep1">>, <<>>, <<"rep2">>, <<>>, pr)) :
        percentage \in AssessmentTrainingPercentages, pr \in {<<>>, <<"rep3">>}}

SelectionConfig(split_count, percentage) ==
    SplitConfig(split_count, percentage,
                ReportConfig(<<"rep1">>, <<"rep1">>, <<>>, <<"rep2">>, <<>>))

NoneParked == [contexts |-> <<>>, switches |-> 0]

NoHistory ==
    [calls |-> <<>>,            \* strategy calls of the current run_selection
     optimal_requests |-> 0,    \* get_optimal_hps calls of the current run_selection
     fresh_at_start |-> TRUE,   \* the strategy was not started when run_selection began
     inner_records |-> <<>>,    \* MLProcess results of the setting under test
     provenance |-> <<>>,       \* per record of hp_strategy.recorded: the samples behind it
     learn_seen |-> {},         \* samples given to a learn-mode encoding in this outer fold
     setting_runs |-> <<>>,     \* MLProcess runs so far: (outer fold, setting, inner fold)
     writes |-> {},             \* paths written so far, with the fold/setting they belong to
     split |-> <<>>,            \* what the outer split_data call of this run() returned
     runs |-> 1,                \* which call of run() on this object is under way
     first_run |-> <<>>,        \* split, assessed and returned list of the first run()
     selection_reports |-> <<>>,  \* outer folds whose run_selection_reports has completed
     selection_report |-> <<>>,   \* this outer fold's run_selection_reports: when and what
     generated |-> <<>>,          \* the last completed reports step of this outer fold: its
                                  \* invocations and the report objects generate_report ran on
     assessed |-> <<>>]         \* per returned performance: what it was assessed on

\* No Dataset object is under observation.
\* No LabelConfiguration is built and no reference encoder is called.
NoLabels ==
    /\ label_configuration = <<>>
    /\ encode_result = <<>>

NoDatasets ==
    /\ dataset_object = <<>>
    /\ caller_filenames = <<>>
    /\ files = <<>>
    /\ fold_datasets = <<>>
    /\ processed = <<>>
    /\ object_calls = 0

\* The fields __init__ assigns, in the order of its statements.
InitAssignments ==
    <<"dataset", "selection", "hp_strategy", "hp_settings", "path", "batch_size",
      "label_configuration", "metrics", "assessment">>

Init ==
    /\ NoDatasets
    /\ NoLabels
    /\ arguments = <<>>
    /\ attributes = Range(InitAssignments)
    /\ pc = "run"
    /\ dataset \in {1 .. n : n \in 1 .. NumSamples}
    /\ \E outer \in 1 .. MaxAssessmentSplitCount, inner \in 1 .. MaxSelectionSplitCount,
          settings \in 1 .. MaxSettings :
          /\ outer * settings * inner <= MaxRuns
          /\ assessment \in AssessmentConfigs(outer)
          /\ \E percentage \in SelectionTrainingPercentages :
                selection = SelectionConfig(inner, percentage)
          /\ hp_settings = [i \in 1 .. settings |-> i]
    /\ hp_strategy = GridSearch(hp_settings)
    /\ encoders = [s \in HPSettings |-> NotFitted]
    /\ ml_methods = [s \in HPSettings |-> <<>>]
    /\ assessment_frame = NoFrame
    /\ fold_frame = NoFrame
    /\ selection_frame = NoFrame
    /\ setting_frame = NoFrame
    /\ returned = <<>>
    /\ printed = FALSE
    /\ error = <<>>
    /\ trace = <<>>
    /\ parked = NoneParked
    /\ report_objects = [report \in Reports |-> ConfiguredReport]
    /\ history = NoHistory

\* An exception leaves every frame it passes: their locals are gone.
RaiseWith(kind, step, objects) ==
    /\ pc' = ErrorTarget(step)
    /\ report_objects' = objects
    /\ error' = Exception(kind, step,
                          IF fold_frame = NoFrame THEN 0 ELSE fold_frame.run,
                          IF selection_frame # NoFrame THEN selection_frame.hp_setting
                          ELSE IF fold_frame # NoFrame THEN fold_frame.optimal_hp_setting
                          ELSE None)
    /\ assessment_frame' = NoFrame
    /\ fold_frame' = NoFrame
    /\ selection_frame' = NoFrame
    /\ setting_frame' = NoFrame
    /\ UNCHANGED <<label_vars, construction_vars, dataset_vars, parked, dataset, assessment, selection, hp_settings, hp_strategy, encoders, ml_methods,
                   returned, printed, trace, history>>

Raise(kind, step) == RaiseWith(kind, step, report_objects)

\* ---------------------------------------------------------- run_assessment
RunAssessment ==
    /\ pc = "run"
    /\ \/ /\ ValidSplit(dataset, assessment)
          /\ \E split \in split_data(dataset, assessment) :
                /\ assessment_frame' = [train_datasets |-> split.train_datasets,
                                        test_datasets |-> split.test_datasets,
                                        fold_performances |-> <<>>, index |-> 0]
                /\ history' = [history EXCEPT !.split = split]
          /\ pc' = "loop"
          /\ UNCHANGED <<label_vars, construction_vars, dataset_vars, report_objects, parked, dataset, assessment, selection, hp_settings, hp_strategy, encoders, ml_methods,
                         fold_frame, selection_frame, setting_frame, returned, printed,
                         error, trace>>
       \/ /\ ~ValidSplit(dataset, assessment)
          /\ Raise("InvalidSplitConfiguration", "split_data")

\* The frame of run_assessment_fold when it is entered: its arguments, current_path, and
\* its locals not yet assigned.
NewFoldFrame(index) ==
    [train_dataset |-> FoldArgs(index).train_dataset,
     test_dataset |-> FoldArgs(index).test_dataset,
     run |-> FoldArgs(index).run,
     current_path |-> AssessmentPath(FoldArgs(index).run),
     optimal_hp_setting |-> None,
     encoded_train_dataset |-> <<>>,
     optimal_method |-> None,
     encoded_test_dataset |-> <<>>,
     performance |-> <<>>,
     assessed |-> <<>>]

RunAssessmentFold ==
    /\ pc = "loop"
    /\ assessment_frame.index < assessment.split_count
    /\ fold_frame' = NewFoldFrame(assessment_frame.index)
    /\ trace' = <<>>
    /\ history' = [history EXCEPT
                      !.learn_seen = {},
                      !.writes = @ \cup {Write(FoldArgs(assessment_frame.index).run, None, None,
                                               AssessmentPath(FoldArgs(assessment_frame.index).run))}]
    /\ pc' = FoldSteps[1]
    /\ UNCHANGED <<label_vars, construction_vars, dataset_vars, report_objects, parked, dataset, assessment, selection, hp_settings, hp_strategy, encoders, ml_methods,
                   assessment_frame, selection_frame, setting_frame, returned, printed,
                   error>>

RunAssessmentFoldReturn ==
    /\ pc = "fold_return"
    /\ assessment_frame' =
          [assessment_frame EXCEPT !.fold_performances = Append(@, fold_frame.performance),
                                   !.index = @ + 1]
    /\ history' = [history EXCEPT !.assessed = Append(@, fold_frame.assessed),
                                  !.selection_report = <<>>,
                                  !.generated = <<>>]
    /\ fold_frame' = NoFrame
    /\ pc' = "loop"
    /\ UNCHANGED <<label_vars, construction_vars, dataset_vars, report_objects, parked, dataset, assessment, selection, hp_settings, hp_strategy, encoders, ml_methods,
                   selection_frame, setting_frame, returned, printed, error, trace>>

RunAssessmentReturn ==
    /\ pc = "loop"
    /\ assessment_frame.index >= assessment.split_count
    /\ printed' = TRUE
    /\ returned' = <<assessment_frame.fold_performances>>
    /\ assessment_frame' = NoFrame
    /\ pc' = "done"
    /\ UNCHANGED <<label_vars, construction_vars, dataset_vars, report_objects, parked, dataset, assessment, selection, hp_settings, hp_strategy, encoders, ml_methods,
                   fold_frame, selection_frame, setting_frame, error, trace, history>>

\* ----------------------------------------------------------- run_selection
RunSelection ==
    /\ pc = "run_selection"
    /\ \/ /\ ValidSplit(fold_frame.train_dataset, selection)
          /\ \E split \in split_data(fold_frame.train_dataset, selection) :
                selection_frame' = [train_dataset |-> fold_frame.train_dataset,
                                    train_datasets |-> split.train_datasets,
                                    test_datasets |-> split.test_datasets,
                                    path |-> SelectionPath(fold_frame.current_path),
                                    hp_setting |-> None,
                                    performance |-> <<>>]
          /\ history' = [history EXCEPT
                            !.calls = <<>>, !.optimal_requests = 0, !.inner_records = <<>>,
                            !.writes = @ \cup {Write(fold_frame.run, None, None,
                                                     SelectionPath(fold_frame.current_path))},
                            !.fresh_at_start = (hp_strategy = GridSearch(hp_settings))]
          /\ pc' = "get_first_setting"
          /\ UNCHANGED <<label_vars, construction_vars, dataset_vars, report_objects, parked, dataset, assessment, selection, hp_settings, hp_strategy, encoders, ml_methods,
                         assessment_frame, fold_frame, setting_frame, returned, printed,
                         error, trace>>
       \/ /\ ~ValidSplit(fold_frame.train_dataset, selection)
          /\ Raise("InvalidSplitConfiguration", "split_data")

LoopTarget_ExitEarly(hp_setting) == "run_selection_reports"

\* The loop test of run_selection on the setting the strategy returned.
LoopTarget(hp_setting) ==
    IF hp_setting # None THEN "test_hp_setting" ELSE "run_selection_reports"

CallStrategy(args) ==
    LET call == get_next_setting(hp_strategy, args)
    IN  /\ hp_strategy' = call.strategy
        /\ selection_frame' = [selection_frame EXCEPT !.hp_setting = call.result]
        /\ setting_frame' = [index |-> 0, fold_performances |-> <<>>]
        /\ history' = [history EXCEPT
                          !.calls = Append(@, [args |-> args, result |-> call.result,
                                               records |-> history.inner_records]),
                          !.inner_records = <<>>,
                          !.provenance =
                              IF args = <<>> THEN @
                              ELSE Append(@, SeqUnion([i \in DOMAIN history.inner_records |->
                                      history.inner_records[i].learnt_on
                                      \cup history.inner_records[i].assessed_on]))]
        /\ pc' = LoopTarget(call.result)
        /\ UNCHANGED <<label_vars, construction_vars, dataset_vars, report_objects, parked, dataset, assessment, selection, hp_settings, encoders, ml_methods,
                       assessment_frame, fold_frame, returned, printed, error, trace>>

GetFirstSetting ==
    /\ pc = "get_first_setting"
    /\ CallStrategy(FirstCallArgs)

GetNextSetting ==
    /\ pc = "get_next_setting"
    /\ CallStrategy(NextCallArgs(selection_frame.hp_setting, selection_frame.performance))

\* --------------------------------------------------------- test_hp_setting
RunSetting ==
    /\ pc = "test_hp_setting"
    /\ setting_frame.index < selection.split_count
    /\ LET args == SettingArgs(setting_frame.index)
           hp_setting == selection_frame.hp_setting
           process == MLProcessRun(hp_setting, args.train_dataset, args.test_dataset,
                                   SettingPath(selection_frame.path, hp_setting, args.run_id))
       IN  \/ /\ \E performance \in PerformanceRecords :
                    /\ setting_frame' =
                          [setting_frame EXCEPT !.fold_performances = Append(@, performance),
                                                !.index = @ + 1]
                    /\ history' =
                          [history EXCEPT
                              !.inner_records =
                                  Append(@, [hp_setting |-> hp_setting,
                                             run_id |-> args.run_id,
                                             learnt_on |-> process.learnt_on,
                                             assessed_on |-> process.assessed_on,
                                             performance |-> performance]),
                              !.learn_seen = @ \cup process.learnt_on,
                              !.setting_runs = Append(@, <<fold_frame.run, hp_setting, args.run_id>>),
                              !.writes = @ \cup {Write(fold_frame.run, hp_setting, args.run_id,
                                                       process.path)}]
              /\ encoders' = [encoders EXCEPT ![hp_setting] = process.encoder]
              /\ ml_methods' = [ml_methods EXCEPT ![hp_setting] = process.method]
              /\ UNCHANGED <<label_vars, construction_vars, dataset_vars, report_objects, parked, pc, dataset, assessment, selection, hp_settings, hp_strategy,
                             assessment_frame, fold_frame, selection_frame, returned,
                             printed, error, trace>>
           \/ Raise("MLProcessError", "run_setting")

TestHpSettingReturn ==
    /\ pc = "test_hp_setting"
    /\ setting_frame.index >= selection.split_count
    /\ selection_frame' =
          [selection_frame EXCEPT
              !.performance = get_average_performance(setting_frame.fold_performances)]
    /\ pc' = "get_next_setting"
    /\ UNCHANGED <<label_vars, construction_vars, dataset_vars, report_objects, parked, dataset, assessment, selection, hp_settings, hp_strategy, encoders, ml_methods,
                   assessment_frame, fold_frame, setting_frame, returned, printed, error,
                   trace, history>>

RunSelectionReports ==
    /\ pc = "run_selection_reports"
    /\ LET calls == run_selection_reports(selection.reports, selection_frame.train_dataset,
                                          selection_frame.train_datasets,
                                          selection_frame.test_datasets,
                                          selection_frame.path \o <<"reports">>)
       IN  \E stop \in StopPositions(calls) :
              LET ran == RunReports(report_objects, SubSeq(calls, 1, stop - 1), <<>>)
              IN
              IF stop > Len(calls)
              THEN /\ pc' = "get_optimal_hps"
                   /\ report_objects' = ran.objects
                   /\ history' = [history EXCEPT
                                     !.generated = [run |-> fold_frame.run, calls |-> calls,
                                                    reports |-> ran.generated],
                                     !.writes = @ \cup {Write(fold_frame.run, None, None,
                                                              calls[i].path) : i \in DOMAIN calls},
                                     !.selection_reports = Append(@, fold_frame.run),
                                     !.selection_report =
                                         [calls |-> calls,
                                          state |-> hp_strategy.state,
                                          optimal_requests |-> history.optimal_requests,
                                          train_dataset |-> selection_frame.train_dataset,
                                          train_datasets |-> selection_frame.train_datasets,
                                          test_datasets |-> selection_frame.test_datasets]]
                   /\ UNCHANGED <<label_vars, construction_vars, dataset_vars, parked, dataset, assessment, selection, hp_settings, hp_strategy, encoders,
                                  ml_methods, assessment_frame, fold_frame, selection_frame,
                                  setting_frame, returned, printed, error, trace>>
              ELSE RaiseWith(ReportError(calls[stop]), "run_selection_reports", ran.objects)

RunSelectionReturn ==
    /\ pc = "get_optimal_hps"
    /\ LET answer == get_optimal_hps(hp_strategy)
       IN  IF answer.error = <<>>
           THEN /\ fold_frame' = [fold_frame EXCEPT !.optimal_hp_setting = answer.result]
                /\ hp_strategy' = answer.strategy
                /\ history' = [history EXCEPT !.optimal_requests = @ + 1]
                /\ selection_frame' = NoFrame
                /\ setting_frame' = NoFrame
                /\ trace' = Append(trace, "run_selection")
                /\ pc' = After("run_selection")
                /\ UNCHANGED <<label_vars, construction_vars, dataset_vars, report_objects, parked, dataset, assessment, selection, hp_settings, encoders,
                               ml_methods, assessment_frame, returned, printed, error>>
           ELSE Raise(answer.error[1], "get_optimal_hps")

\* ------------------------------------------------------ run_assessment_fold
Encode(step, ds, learn_model, field) ==
    /\ pc = step
    /\ LET hp_setting == fold_frame.optimal_hp_setting
           encoded == encode_dataset(ds, hp_setting, fold_frame.current_path, learn_model)
       IN  \/ /\ hp_setting # None
              /\ learn_model \/ encoders[hp_setting] # NotFitted
              /\ encoders' = [encoders EXCEPT ![hp_setting] = encoded.encoder]
              /\ fold_frame' = [fold_frame EXCEPT ![field] = encoded.dataset]
              /\ history' = [history EXCEPT
                                !.learn_seen = IF learn_model THEN @ \cup ds ELSE @,
                                !.writes = @ \cup {Write(fold_frame.run, None, None,
                                                         fold_frame.current_path
                                                             \o <<EncodedFilename(learn_model)>>)}]
              /\ trace' = Append(trace, step)
              /\ pc' = After(step)
              /\ UNCHANGED <<label_vars, construction_vars, dataset_vars, report_objects, parked, dataset, assessment, selection, hp_settings, hp_strategy, ml_methods,
                             assessment_frame, selection_frame, setting_frame, returned,
                             printed, error>>
           \/ Raise(IF hp_setting = None THEN "AttributeError"
                    ELSE IF learn_model THEN "EncodingError" ELSE "ModelNotFoundError",
                    step)

EncodeTrain ==
    Encode("encode_train", fold_frame.train_dataset, EncodeTrainLearnModel,
           "encoded_train_dataset")

EncodeTest ==
    Encode("encode_test", fold_frame.test_dataset, EncodeTestLearnModel,
           "encoded_test_dataset")

TrainOptimalMethod ==
    /\ pc = "train_optimal_method"
    /\ LET hp_setting == fold_frame.optimal_hp_setting
       IN  \/ /\ ml_methods' = [ml_methods EXCEPT ![hp_setting] =
                    train_optimal_method(fold_frame.encoded_train_dataset, hp_setting)]
              /\ fold_frame' = [fold_frame EXCEPT !.optimal_method = hp_setting]
              /\ history' = [history EXCEPT
                                !.writes = @ \cup {Write(fold_frame.run, None, None,
                                                         OptimalMethodPath(fold_frame.current_path))}]
              /\ trace' = Append(trace, "train_optimal_method")
              /\ pc' = After("train_optimal_method")
              /\ UNCHANGED <<label_vars, construction_vars, dataset_vars, report_objects, parked, dataset, assessment, selection, hp_settings, hp_strategy, encoders,
                             assessment_frame, selection_frame, setting_frame, returned,
                             printed, error>>
           \/ Raise("TrainingError", "train_optimal_method")

AssessPerformance ==
    /\ pc = "assess_performance"
    /\ \/ /\ \E performance \in PerformanceRecords :
                fold_frame' =
                    [fold_frame EXCEPT
                        !.performance = performance,
                        !.assessed = [run |-> fold_frame.run,
                                      performance |-> performance,
                                      method |-> ml_methods[fold_frame.optimal_method],
                                      dataset |-> fold_frame.encoded_test_dataset]]
          /\ history' = [history EXCEPT
                            !.writes = @ \cup {Write(fold_frame.run, None, None,
                                                     PredictionsPath(fold_frame.current_path)),
                                               Write(fold_frame.run, None, None,
                                                     MLDetailsPath(fold_frame.current_path))}]
          /\ trace' = Append(trace, "assess_performance")
          /\ pc' = After("assess_performance")
          /\ UNCHANGED <<label_vars, construction_vars, dataset_vars, report_objects, parked, dataset, assessment, selection, hp_settings, hp_strategy, encoders, ml_methods,
                         assessment_frame, selection_frame, setting_frame, returned,
                         printed, error>>
       \/ Raise("MissingLabelError", "assess_performance")

RunAssessmentReports ==
    /\ pc = "run_assessment_reports"
    /\ LET calls == run_assessment_reports(assessment.reports, fold_frame.train_dataset,
                                           fold_frame.test_dataset, fold_frame.optimal_method,
                                           fold_frame.current_path \o <<"reports">>)
       IN  \E stop \in StopPositions(calls) :
              LET ran == RunReports(report_objects, SubSeq(calls, 1, stop - 1), <<>>)
              IN
              IF stop > Len(calls)
              THEN /\ report_objects' = ran.objects
                   /\ history' = [history EXCEPT
                                     !.generated = [run |-> fold_frame.run, calls |-> calls,
                                                    reports |-> ran.generated],
                                     !.writes = @ \cup {Write(fold_frame.run, None, None,
                                                              calls[i].path) : i \in DOMAIN calls}]
                   /\ trace' = Append(trace, "run_assessment_reports")
                   /\ pc' = After("run_assessment_reports")
                   /\ UNCHANGED <<label_vars, construction_vars, dataset_vars, parked, dataset, assessment, selection, hp_settings, hp_strategy, encoders,
                                  ml_methods, assessment_frame, fold_frame, selection_frame,
                                  setting_frame, returned, printed, error>>
              ELSE RaiseWith(ReportError(calls[stop]), "run_assessment_reports", ran.objects)

Next ==
    \/ RunAssessment
    \/ RunAssessmentFold
    \/ RunAssessmentFoldReturn
    \/ RunAssessmentReturn
    \/ RunSelection
    \/ GetFirstSetting
    \/ GetNextSetting
    \/ RunSetting
    \/ TestHpSettingReturn
    \/ RunSelectionReports
    \/ RunSelectionReturn
    \/ EncodeTrain
    \/ TrainOptimalMethod
    \/ EncodeTest
    \/ AssessPerformance
    \/ RunAssessmentReports

Spec == Init /\ [][Next]_vars

\* ---------------------------------------------------------------- __init__
\* isinstance(hp_setting, HPSetting): None stands for an object of another type.
IsHPSetting_AnyObject(hp_setting) == TRUE
IsHPSetting(hp_setting) == hp_setting \in HPSettings

\* The fields assigned when the assert statement is reached.
AssignedBeforeAssert == {InitAssignments[i] : i \in 1 .. 3}

\* Lists a caller passes as hp_settings.
HPSettingsArguments ==
    UNION {[1 .. n -> HPSettings \cup {None}] : n \in 0 .. MaxSettings}

ConstructInit ==
    /\ NoDatasets
    /\ NoLabels
    /\ pc = "new"
    /\ \E list \in HPSettingsArguments, pr \in {<<>>, <<"rep3">>} :
          arguments = [dataset |-> 1 .. NumSamples,
                       hp_strategy |-> GridSearch(list),
                       hp_settings |-> list,
                       assessment |-> SplitConfig(1, AssessmentTrainingPercentage,
                                                  ReportConfig(<<"rep1">>, <<>>, <<"rep2">>,
                                                               <<>>, pr)),
                       selection |-> SelectionConfig(1, SelectionTrainingPercentage)]
    /\ attributes = {}
    /\ dataset = {}
    /\ assessment = NoFrame
    /\ selection = NoFrame
    /\ hp_settings = <<>>
    /\ hp_strategy = NoFrame
    /\ encoders = [s \in HPSettings |-> NotFitted]
    /\ ml_methods = [s \in HPSettings |-> <<>>]
    /\ assessment_frame = NoFrame
    /\ fold_frame = NoFrame
    /\ selection_frame = NoFrame
    /\ setting_frame = NoFrame
    /\ returned = <<>>
    /\ printed = FALSE
    /\ error = <<>>
    /\ trace = <<>>
    /\ parked = NoneParked
    /\ report_objects = [report \in Reports |-> ConfiguredReport]
    /\ history = NoHistory

Construct ==
    /\ pc = "new"
    /\ dataset' = arguments.dataset
    /\ selection' = arguments.selection
    /\ hp_strategy' = arguments.hp_strategy
    /\ IF \A i \in DOMAIN arguments.hp_settings : IsHPSetting(arguments.hp_settings[i])
       THEN /\ hp_settings' = arguments.hp_settings
            /\ assessment' = arguments.assessment
            /\ attributes' = Range(InitAssignments)
            /\ pc' = "run"
            /\ UNCHANGED error
       ELSE /\ attributes' = AssignedBeforeAssert
            /\ pc' = "failed"
            /\ error' = Exception("AssertionError", "__init__", 0, None)
            /\ UNCHANGED <<hp_settings, assessment>>
    /\ UNCHANGED <<label_vars, dataset_vars, arguments, encoders, ml_methods, assessment_frame, fold_frame,
                   selection_frame, setting_frame, returned, printed, trace, parked,
                   report_objects, history>>

ConstructNext == Construct \/ Next

ConstructSpec == ConstructInit /\ [][ConstructNext]_vars

\* ------------------------------------------------------------ a second run()
\* The caller calls run() again on the same process object once the first call has
\* returned: the object keeps its strategy and its settings (encoders, methods).  The
\* splitter is deterministic: split_data in run_assessment returns what it returned for
\* the same dataset and SplitConfig in the first call.
RunAgain ==
    /\ pc = "done"
    /\ history.runs = 1
    /\ history.split \in split_data(dataset, assessment)
    /\ assessment_frame' = [train_datasets |-> history.split.train_datasets,
                            test_datasets |-> history.split.test_datasets,
                            fold_performances |-> <<>>, index |-> 0]
    /\ pc' = "loop"
    /\ returned' = <<>>
    /\ printed' = FALSE
    /\ trace' = <<>>
    /\ history' = [history EXCEPT
                      !.runs = 2,
                      !.first_run = [split |-> history.split, assessed |-> history.assessed,
                                     returned |-> returned[1]],
                      !.assessed = <<>>]
    /\ UNCHANGED <<label_vars, construction_vars, dataset_vars, report_objects, parked, dataset, assessment, selection, hp_settings, hp_strategy, encoders, ml_methods,
                   fold_frame, selection_frame, setting_frame, error>>

RerunNext == Next \/ RunAgain

RerunSpec == Init /\ [][RerunNext]_vars

\* ------------------------------------------------- outer folds run in parallel
\* Spec 5 permits the outer folds to be executed in parallel.  The folds are calls of
\* run_assessment_fold on the one process object: each has its own frames (arguments and
\* locals), all share self.hp_strategy and the encoder and ml_method objects of
\* self.hp_settings.  One fold runs at a time and the others are parked; a switch between
\* any two steps gives every interleaving of the folds' steps.
FoldContext(at, fold, sel, setting, steps) ==
    [pc |-> at, fold_frame |-> fold, selection_frame |-> sel, setting_frame |-> setting,
     trace |-> steps]

InFold == pc \notin {"run", "loop", "done", "failed"}

ParRunAssessmentFolds ==
    /\ pc = "loop"
    /\ assessment_frame.index = 0
    /\ fold_frame = NoFrame
    /\ parked = NoneParked
    /\ fold_frame' = NewFoldFrame(0)
    /\ trace' = <<>>
    /\ pc' = FoldSteps[1]
    /\ parked' = [contexts |-> [i \in 1 .. assessment.split_count - 1 |->
                                    FoldContext(FoldSteps[1], NewFoldFrame(i), NoFrame,
                                                NoFrame, <<>>)],
                  switches |-> 0]
    /\ UNCHANGED <<label_vars, construction_vars, dataset_vars, report_objects, dataset, assessment, selection, hp_settings, hp_strategy, encoders, ml_methods,
                   assessment_frame, selection_frame, setting_frame, returned, printed,
                   error, history>>

Switch ==
    /\ InFold
    /\ parked.switches < MaxSwitches
    /\ \E i \in DOMAIN parked.contexts :
          /\ parked' = [contexts |-> [parked.contexts EXCEPT ![i] =
                                         FoldContext(pc, fold_frame, selection_frame,
                                                     setting_frame, trace)],
                        switches |-> parked.switches + 1]
          /\ pc' = parked.contexts[i].pc
          /\ fold_frame' = parked.contexts[i].fold_frame
          /\ selection_frame' = parked.contexts[i].selection_frame
          /\ setting_frame' = parked.contexts[i].setting_frame
          /\ trace' = parked.contexts[i].trace
    /\ UNCHANGED <<label_vars, construction_vars, dataset_vars, report_objects, dataset, assessment, selection, hp_settings, hp_strategy, encoders, ml_methods,
                   assessment_frame, returned, printed, error, history>>

\* A fold returns its performance record; a parked fold, if any, runs on.
ParRunAssessmentFoldReturn ==
    /\ pc = "fold_return"
    /\ assessment_frame' =
          [assessment_frame EXCEPT !.fold_performances = Append(@, fold_frame.performance),
                                   !.index = @ + 1]
    /\ history' = [history EXCEPT !.assessed = Append(@, fold_frame.assessed),
                                  !.selection_report = <<>>,
                                  !.generated = <<>>]
    /\ IF parked.contexts = <<>>
       THEN /\ fold_frame' = NoFrame
            /\ pc' = "loop"
            /\ UNCHANGED <<label_vars, construction_vars, dataset_vars, report_objects, parked, selection_frame, setting_frame, trace>>
       ELSE /\ pc' = parked.contexts[1].pc
            /\ fold_frame' = parked.contexts[1].fold_frame
            /\ selection_frame' = parked.contexts[1].selection_frame
            /\ setting_frame' = parked.contexts[1].setting_frame
            /\ trace' = parked.contexts[1].trace
            /\ parked' = [parked EXCEPT !.contexts = Tail(@)]
    /\ UNCHANGED <<label_vars, construction_vars, dataset_vars, report_objects, dataset, assessment, selection, hp_settings, hp_strategy, encoders, ml_methods,
                   returned, printed, error>>

ParNext ==
    \/ RunAssessment
    \/ ParRunAssessmentFolds
    \/ Switch
    \/ ParRunAssessmentFoldReturn
    \/ RunAssessmentReturn
    \/ RunSelection
    \/ GetFirstSetting
    \/ GetNextSetting
    \/ RunSetting
    \/ TestHpSettingReturn
    \/ RunSelectionReports
    \/ RunSelectionReturn
    \/ EncodeTrain
    \/ TrainOptimalMethod
    \/ EncodeTest
    \/ AssessPerformance
    \/ RunAssessmentReports

\* Two outer folds, the smallest selection: one setting over one inner split.
ParInit ==
    /\ Init
    /\ assessment.split_count = 2
    /\ selection.split_count = 1
    /\ Len(hp_settings) = 1

ParSpec == ParInit /\ [][ParNext]_vars

\* ---------------------------------------------------------------- Dataset
\* A path is <<directory, name>>.  sorted() orders paths as strings do: by directory, then
\* by name.
Directories == {1, 2}
Names == {1, 2}
Paths == Directories \X Names

PathLess(a, b) == a[1] < b[1] \/ (a[1] = b[1] /\ a[2] < b[2])

RECURSIVE Insert(_, _)
Insert(x, seq) ==
    IF seq = <<>> THEN <<x>>
    ELSE IF PathLess(x, Head(seq)) THEN <<x>> \o seq
    ELSE <<Head(seq)>> \o Insert(x, Tail(seq))

RECURSIVE sorted(_)
sorted(seq) == IF seq = <<>> THEN <<>> ELSE Insert(Head(seq), sorted(Tail(seq)))

\* uuid.uuid1() of the constructor.
uuid1 == 100

\* Dataset.__init__; the optional list `filenames` is <<>> (None) or <<list>>.
Dataset(data, params, encoded_data, filenames, identifier, metadata_file) ==
    [data |-> data,
     params |-> params,
     encoded_data |-> encoded_data,
     id |-> IF identifier # None THEN identifier ELSE uuid1,
     filenames |-> IF filenames # <<>> THEN sorted(filenames[1]) ELSE <<>>,
     metadata_file |-> metadata_file]

add_data(self, data) == [self EXCEPT !.data = data]

\* The dataset that results is a new one holding the encoded data only.
add_encoded_data_ReplacesDataset(self, encoded_data) ==
    Dataset(None, None, encoded_data, <<>>, None, None)

add_encoded_data(self, encoded_data) == [self EXCEPT !.encoded_data = encoded_data]

\* self: the object after the call; file_list: the list the generator reads from.
get_data(self) ==
    [self |-> [self EXCEPT !.filenames = sorted(@)], file_list |-> sorted(self.filenames)]

get_repertoire_count(self) == Len(self.filenames)

\* The caller's list itself is sorted and kept.
set_filenames_SortsInPlace(self, filenames) ==
    [self |-> [self EXCEPT !.filenames = sorted(filenames)], filenames |-> sorted(filenames)]

\* self: the object after the call; filenames: the caller's list after the call.
set_filenames(self, filenames) ==
    [self |-> [self EXCEPT !.filenames = sorted(filenames)], filenames |-> filenames]

get_filenames(self) == self.filenames

\* Lists of distinct paths a caller passes as filenames, in any order.
FilenameLists ==
    {l \in UNION {[1 .. n -> Paths] : n \in 0 .. MaxFiles} :
        \A i, j \in DOMAIN l : l[i] = l[j] => i = j}

\* What a caller attaches as data / encoded data (None: nothing).
DataValues == {None, 1}
EncodedDataValues == {None, 1, 2}

\* ----------------------------------------------------------- repertoire files
NoFile == <<>>
Chains == {"A", "B"}
\* A repertoire: its identifier and the chains its sequences have.
Repertoires == [identifier : Names, chains : SUBSET Chains]

\* The caller's list as passed and as the caller holds it after the call.
Passed(filenames, after) == [passed |-> filenames, now |-> after]

\* No HPOptimizationProcess is running.
NoProcess ==
    /\ pc = "idle"
    /\ dataset = {}
    /\ assessment = NoFrame
    /\ selection = NoFrame
    /\ hp_settings = <<>>
    /\ hp_strategy = GridSearch(<<>>)
    /\ encoders = [s \in HPSettings |-> NotFitted]
    /\ ml_methods = [s \in HPSettings |-> <<>>]
    /\ assessment_frame = NoFrame
    /\ fold_frame = NoFrame
    /\ selection_frame = NoFrame
    /\ setting_frame = NoFrame
    /\ returned = <<>>
    /\ printed = FALSE
    /\ error = <<>>
    /\ trace = <<>>
    /\ parked = NoneParked
    /\ report_objects = [report \in Reports |-> ConfiguredReport]
    /\ history = NoHistory
    /\ arguments = <<>>
    /\ attributes = {}

DatasetInit ==
    /\ NoProcess
    /\ NoLabels
    /\ \E filenames \in {<<>>} \cup {<<l>> : l \in FilenameLists} :
          /\ dataset_object = Dataset(None, None, None, filenames, None, 1)
          /\ caller_filenames = IF filenames = <<>> THEN <<>>
                                ELSE <<Passed(filenames[1], filenames[1])>>
    /\ files = <<>>
    /\ fold_datasets = <<>>
    /\ processed = <<>>
    /\ object_calls = 0

SetFilenames ==
    /\ object_calls < MaxCalls
    /\ \E filenames \in FilenameLists :
          LET call == set_filenames(dataset_object, filenames)
          IN  /\ dataset_object' = call.self
              /\ caller_filenames' = <<Passed(filenames, call.filenames)>>
    /\ object_calls' = object_calls + 1
    /\ UNCHANGED <<label_vars, process_vars, files, fold_datasets, processed>>

AddData ==
    /\ object_calls < MaxCalls
    /\ \E data \in DataValues : dataset_object' = add_data(dataset_object, data)
    /\ object_calls' = object_calls + 1
    /\ UNCHANGED <<label_vars, process_vars, caller_filenames, files, fold_datasets, processed>>

AddEncodedData ==
    /\ object_calls < MaxCalls
    /\ \E encoded_data \in EncodedDataValues :
          dataset_object' = add_encoded_data(dataset_object, encoded_data)
    /\ object_calls' = object_calls + 1
    /\ UNCHANGED <<label_vars, process_vars, caller_filenames, files, fold_datasets, processed>>

GetData ==
    /\ object_calls < MaxCalls
    /\ dataset_object' = get_data(dataset_object).self
    /\ object_calls' = object_calls + 1
    /\ UNCHANGED <<label_vars, process_vars, caller_filenames, files, fold_datasets, processed>>

\* The steps of the loops, as they act on Dataset objects.  The splitter returns for a
\* fold two new Dataset objects that name a part of the samples each; the encoder returns
\* a clone of the dataset it is given with the encoded data attached; a report, the
\* trainer and the assessment read the samples of the dataset they are given (get_data).
SplitDataset ==
    /\ fold_datasets = <<>>
    /\ \E train \in SUBSET DOMAIN dataset_object.filenames :
          LET test == DOMAIN dataset_object.filenames \ train
              part(indices) ==
                  set_filenames(dataset_object,
                                SelectSeq(dataset_object.filenames,
                                          LAMBDA f : \E i \in indices :
                                                        dataset_object.filenames[i] = f)).self
          IN  fold_datasets' = [train |-> part(train), test |-> part(test),
                                returned |-> [train |-> part(train), test |-> part(test)],
                                encoded |-> <<>>]
    /\ UNCHANGED <<label_vars, process_vars, dataset_object, caller_filenames, files, processed,
                   object_calls>>

EncodeDataset ==
    /\ fold_datasets # <<>>
    /\ \E which \in {"train", "test"}, encoded_data \in EncodedDataValues \ {None} :
          fold_datasets' =
              [fold_datasets EXCEPT
                  !.encoded = <<[of |-> which,
                                 dataset |-> add_encoded_data(fold_datasets[which],
                                                              encoded_data)]>>]
    /\ UNCHANGED <<label_vars, process_vars, dataset_object, caller_filenames, files, processed,
                   object_calls>>

ReadDataset ==
    /\ fold_datasets # <<>>
    /\ \E which \in {"train", "test"} :
          fold_datasets' = [fold_datasets EXCEPT ![which] = get_data(@).self]
    /\ UNCHANGED <<label_vars, process_vars, dataset_object, caller_filenames, files, processed,
                   object_calls>>

DatasetNext ==
    \/ SetFilenames
    \/ AddData
    \/ AddEncodedData
    \/ GetData
    \/ SplitDataset
    \/ EncodeDataset
    \/ ReadDataset

DatasetSpec == DatasetInit /\ [][DatasetNext]_vars

\* ------------------------------------------------------- DatasetChainFilter
\* keep_chain as the caller writes it, and str.upper() on it.
KeepChains == {"a", "A", "B"}
upper(keep_chain) == IF keep_chain = "a" THEN "A" ELSE keep_chain

\* params["result_path"] + "{}.pickle".format(repertoire.identifier)
PickleFilename(result_path, identifier) == <<result_path, identifier>>

\* os.rename: the file is at `target` afterwards, replacing what was there.
rename(fs, source, target) ==
    IF source = target THEN fs
    ELSE [fs EXCEPT ![target] = fs[source], ![source] = NoFile]

\* The metadata file build_new_metadata writes for the kept repertoires.
NewMetadataFile == 2

\* The loop of process over the generator of dataset.get_data(): the generator loads the
\* file at file_list[index] when the loop reaches it.
RECURSIVE FilterLoop(_, _, _, _, _, _)
FilterLoop(file_list, index, fs, filenames, indices, params) ==
    IF index > Len(file_list)
    THEN [files |-> fs, filenames |-> filenames, indices |-> indices, error |-> <<>>]
    ELSE LET repertoire == fs[file_list[index]]
         IN  IF repertoire = NoFile
             THEN [files |-> fs, filenames |-> filenames, indices |-> indices,
                   error |-> <<"FileNotFoundError">>]
             ELSE IF \A chain \in repertoire.chains : chain = upper(params.keep_chain)
             THEN LET filename == PickleFilename(params.result_path, repertoire.identifier)
                  IN  FilterLoop(file_list, index + 1,
                                 rename(fs, file_list[index], filename),
                                 Append(filenames, filename), Append(indices, index - 1),
                                 params)
             ELSE FilterLoop(file_list, index + 1, fs, filenames, indices, params)

\* DatasetChainFilter.process: the dataset it returns, the input dataset and the file
\* system as the call leaves them, and the error it raised, if any.
process(ds, params, fs) ==
    LET processed_dataset == ds
        read == get_data(ds)
        loop == FilterLoop(read.file_list, 1, fs, <<>>, <<>>, params)
    IN  [dataset |-> read.self,
         files |-> loop.files,
         error |-> loop.error,
         processed_dataset |->
             set_filenames([processed_dataset EXCEPT !.metadata_file = NewMetadataFile],
                           loop.filenames).self]

FilterInit ==
    /\ NoProcess
    /\ NoLabels
    /\ \E filenames \in FilenameLists :
          /\ dataset_object = Dataset(None, None, None, <<filenames>>, None, 1)
          /\ caller_filenames = <<Passed(filenames, filenames)>>
          /\ files \in {fs \in [Paths -> Repertoires \cup {NoFile}] :
                           \A path \in Paths : fs[path] # NoFile <=> path \in Range(filenames)}
    /\ fold_datasets = <<>>
    /\ processed = <<>>
    /\ object_calls = 0

Process ==
    /\ processed = <<>>
    /\ \E keep_chain \in KeepChains, result_path \in Directories :
          LET params == [keep_chain |-> keep_chain, result_path |-> result_path]
              call == process(dataset_object, params, files)
          IN  /\ dataset_object' = call.dataset
              /\ files' = call.files
              /\ processed' = <<[dataset |-> call.processed_dataset,
                                 error |-> call.error,
                                 params |-> params,
                                 input |-> dataset_object,
                                 files |-> files]>>
    /\ UNCHANGED <<label_vars, process_vars, caller_filenames, fold_datasets, object_calls>>

FilterNext == Process

FilterSpec == FilterInit /\ [][FilterNext]_vars

\* ------------------------------------------------------- LabelConfiguration
LabelNames == {"donor", "label"}

LabelValues == {1, 2}

\* The label MatchedReceptorsRepertoireEncoder reads from the label configuration.
RequiredLabel_Label == "label"
RequiredLabel == "donor"

\* LabelConfiguration.add_label(name, values)
add_label(self, name, values) ==
    [n \in DOMAIN self \cup {name} |-> IF n = name THEN values ELSE self[n]]

\* encoder.encode(dataset, EncoderParams(label_configuration = ...)): one example per
\* donor, labelled with every registered label but the donor; the lookup of a label
\* that is not registered raises.
encode(label_config) ==
    IF RequiredLabel \in DOMAIN label_config
    THEN [raised |-> "",
          encoded |-> <<[examples |-> Cardinality(Range(label_config[RequiredLabel])),
                         labels |-> DOMAIN label_config \ {RequiredLabel}]>>]
    ELSE [raised |-> "KeyError", encoded |-> <<>>]

LabelInit ==
    /\ NoProcess
    /\ NoDatasets
    /\ NoLabels

AddLabel ==
    /\ encode_result = <<>>
    /\ \E name \in LabelNames \ DOMAIN label_configuration,
          values \in [1 .. NumSamples -> LabelValues] :
          label_configuration' = add_label(label_configuration, name, values)
    /\ UNCHANGED <<process_vars, dataset_vars, encode_result>>

EncodeDonors ==
    /\ encode_result = <<>>
    /\ encode_result' = <<encode(label_configuration)>>
    /\ UNCHANGED <<process_vars, dataset_vars, label_configuration>>

LabelNext == AddLabel \/ EncodeDonors

LabelSpec == LabelInit /\ [][LabelNext]_vars

\* ==========================================================================
\* Properties
\* ==========================================================================
SelectionPcs ==
    {"get_first_setting", "test_hp_setting", "get_next_setting",
     "run_selection_reports", "get_optimal_hps"}

InSelection == pc \in SelectionPcs /\ selection_frame # NoFrame /\ fold_frame # NoFrame

ExpectedFoldOrder ==
    <<"run_selection", "encode_train", "train_optimal_method", "encode_test",
      "assess_performance", "run_assessment_reports">>

\* C1: while run_selection works on outer fold i, neither the datasets it was handed nor
\* the data behind any performance record the strategy holds contain a sample of
\* outer-test[i].
C1_NoOuterTestLeak ==
    InSelection =>
        /\ selection_frame.train_dataset \cap fold_frame.test_dataset = {}
        /\ \A k \in DOMAIN selection_frame.train_datasets :
              (selection_frame.train_datasets[k] \cup selection_frame.test_datasets[k])
                  \cap fold_frame.test_dataset = {}
        /\ \A r \in DOMAIN history.provenance :
              history.provenance[r] \cap fold_frame.test_dataset = {}

\* C2: at the start of run_selection, in every outer fold, the strategy is not started:
\* all candidates remain and nothing is recorded; its first answer is the first candidate.
C2_StrategyFreshPerFold ==
    /\ pc = "run_selection" => hp_strategy = GridSearch(hp_settings)
    /\ InSelection /\ history.calls # <<>> => history.calls[1].result = Head(hp_settings)

\* C3: in every outer fold the steps complete in the order selection, learn-mode encoding
\* of outer-train, training, apply-mode encoding of outer-test, assessment, reports; the
\* selection runs before any of the others; fold i+1 starts only once fold i completed
\* them all.
C3_FoldStepOrder ==
    [][/\ \/ trace' = trace
          \/ /\ Len(trace) < Len(ExpectedFoldOrder)
             /\ trace' = Append(trace, ExpectedFoldOrder[Len(trace) + 1])
          \/ trace' = <<>> /\ trace = ExpectedFoldOrder
       /\ pc' \in SelectionPcs \cup {"run_selection"} => trace' = <<>>
       /\ fold_frame' # NoFrame /\ fold_frame = NoFrame =>
             /\ fold_frame'.run = assessment_frame.index + 1
             /\ trace = IF assessment_frame.index = 0 THEN <<>> ELSE ExpectedFoldOrder
       /\ pc' = "fold_return" => trace' = ExpectedFoldOrder]_vars

C3_Witness ==
    /\ pc = "fold_return"
    /\ fold_frame.run = 2
    /\ trace = ExpectedFoldOrder

\* C4: no learn-mode encoding of an outer fold sees a sample of that fold's outer-test
\* dataset; the encoded outer-test dataset was produced with learn_model = FALSE by the
\* encoder state fitted on that fold's outer-train dataset under that fold's path.
C4_TestEncodedWithTrainFit ==
    fold_frame # NoFrame =>
        /\ history.learn_seen \cap fold_frame.test_dataset = {}
        /\ fold_frame.encoded_test_dataset # <<>> =>
              /\ ~fold_frame.encoded_test_dataset.learn_model
              /\ fold_frame.encoded_test_dataset.samples = fold_frame.test_dataset
              /\ fold_frame.encoded_test_dataset.encoded_with =
                    [fitted_on |-> fold_frame.train_dataset,
                     result_path |-> fold_frame.current_path]

C4_Witness ==
    /\ pc = "assess_performance"
    /\ fold_frame.run = 2
    /\ fold_frame.encoded_test_dataset # <<>>
    /\ fold_frame.train_dataset # assessment_frame.train_datasets[1]

\* C5: the first get_next_setting call of a run_selection has no arguments; every later
\* call passes the setting the preceding call returned and the average of that setting's
\* records; no call follows a null result; get_optimal_hps is called only after a null
\* result, and exactly once by the time run_selection has returned.
C5_SelectionProtocol ==
    LET calls == history.calls
    IN  /\ calls # <<>> => calls[1].args = <<>>
        /\ \A i \in 2 .. Len(calls) :
              /\ calls[i - 1].result # None
              /\ Len(calls[i].args) = 2
              /\ calls[i].args[1] = calls[i - 1].result
              /\ \A k \in DOMAIN calls[i].records :
                    calls[i].records[k].hp_setting = calls[i - 1].result
              /\ calls[i].args[2] =
                    get_average_performance(
                        [k \in DOMAIN calls[i].records |-> calls[i].records[k].performance])
        /\ history.optimal_requests \in {0, 1}
        /\ history.optimal_requests = 1 =>
              calls # <<>> /\ calls[Len(calls)].result = None
        /\ InSelection => history.optimal_requests = 0
        /\ fold_frame # NoFrame /\ trace # <<>> => history.optimal_requests = 1

C5_Witness ==
    /\ pc = "encode_train"
    /\ Len(history.calls) = 3
    /\ history.calls[3].args[1] = 2
    /\ history.optimal_requests = 1

\* C6: a failing report invocation does not end the run: the exception that leaves run()
\* is never the error of a report.
C6_ReportFailureNotFatal ==
    error # <<>> =>
        /\ error[1].step \notin {"run_selection_reports", "run_assessment_reports"}
        /\ error[1].kind \notin {"ReportGenerationError", "NotImplementedError"}

\* C7: once a split, encode, train or assess step (or a report) has raised, nothing
\* further is executed: the run is left with the error, no performance list is returned
\* and no summary is printed.
C7_FailFast ==
    [][/\ error # <<>> => vars' = vars
       /\ error' # <<>> => pc' = "failed" /\ returned' = <<>> /\ ~printed'
       /\ pc' = "failed" => error' # <<>>]_vars

C7_Witness ==
    /\ pc = "failed"
    /\ error # <<>>
    /\ error[1].step = "run_setting"
    /\ error[1].run = 1
    /\ selection.split_count = 2
    /\ Len(hp_settings) = 2
    /\ hp_strategy.recorded = <<>>
    /\ encoders[1] # NotFitted

\* C8: the list run_assessment builds and returns has one record per outer fold, in fold
\* order: its k-th record is the one assessed on outer-test[k] with the method fitted on
\* outer-train[k], and every record has exactly the configured labels.
C8_ReturnedPerformances ==
    /\ pc = "loop" =>
          /\ Len(assessment_frame.fold_performances) = assessment_frame.index
          /\ Len(history.assessed) = assessment_frame.index
          /\ \A k \in DOMAIN assessment_frame.fold_performances :
                /\ history.assessed[k].run = k
                /\ history.assessed[k].performance = assessment_frame.fold_performances[k]
                /\ history.assessed[k].dataset.samples = assessment_frame.test_datasets[k]
                /\ history.assessed[k].method.fitted_on = assessment_frame.train_datasets[k]
                /\ DOMAIN assessment_frame.fold_performances[k] = Labels
    /\ pc = "done" =>
          /\ returned # <<>>
          /\ Len(returned[1]) = assessment.split_count
          /\ \A k \in DOMAIN returned[1] :
                /\ returned[1][k] = history.assessed[k].performance
                /\ history.assessed[k].run = k
                /\ DOMAIN returned[1][k] = Labels

C8_Witness ==
    /\ pc = "done"
    /\ Len(returned[1]) = 2
    /\ history.assessed[1].dataset.samples # history.assessed[2].dataset.samples

RECURSIVE NumeratorSum(_, _)
NumeratorSum(records, label) ==
    IF records = <<>> THEN 0
    ELSE Head(records).performance[label][1] + NumeratorSum(Tail(records), label)

\* C9: the performance fed back for a setting has exactly the configured labels, and for
\* each label it is the sum of that label's values over the records of the inner folds
\* 1 .. selection.split_count (fold k: train[k] / test[k], once each) divided by their number.
C9_FedBackIsMean ==
    \A i \in 2 .. Len(history.calls) :
        Len(history.calls[i].args) = 2 =>
            LET records == history.calls[i].records
                performance == history.calls[i].args[2]
            IN  /\ Len(records) = selection.split_count
                /\ \A k \in DOMAIN records :
                      /\ records[k].run_id = k
                      /\ \A label \in Labels : records[k].performance[label][2] = 1
                      /\ InSelection =>
                            /\ records[k].learnt_on = selection_frame.train_datasets[k]
                            /\ records[k].assessed_on = selection_frame.test_datasets[k]
                /\ DOMAIN performance = Labels
                /\ \A label \in Labels :
                      /\ performance[label][2] > 0
                      /\ performance[label][1] * Len(records) =
                            NumeratorSum(records, label) * performance[label][2]

C9_Witness ==
    /\ InSelection
    /\ Len(history.calls) = 2
    /\ selection.split_count = 2
    /\ history.calls[2].records[1].performance["CD"] = <<0, 1>>
    /\ history.calls[2].records[2].performance["CD"] = <<1, 1>>
    /\ RatEq(history.calls[2].args[2]["CD"], <<1, 2>>)

\* C10: in a run_selection that starts with a not-started grid search over n candidates,
\* calls 1 .. n of get_next_setting return n different candidates, call n + 1 returns
\* null and is the last one, and the settings evaluated are all the candidates.
C10_GridEnumeration ==
    history.fresh_at_start =>
        LET calls == history.calls
            n == Len(hp_settings)
        IN  /\ Len(calls) <= n + 1
            /\ \A i \in DOMAIN calls :
                  /\ i <= n => calls[i].result \in Range(hp_settings)
                  /\ i = n + 1 => calls[i].result = None
            /\ \A i, j \in DOMAIN calls : i # j => calls[i].result # calls[j].result
            /\ calls # <<>> /\ calls[Len(calls)].result = None =>
                  /\ Len(calls) = n + 1
                  /\ \A i \in 2 .. Len(calls) :
                        /\ Len(calls[i].args) = 2
                        /\ Len(calls[i].records) = selection.split_count
                  /\ {calls[i].args[1] : i \in 2 .. Len(calls)} = Range(hp_settings)

C10_Witness ==
    /\ pc = "run_selection_reports"
    /\ history.fresh_at_start
    /\ Len(hp_settings) = 2
    /\ Len(history.calls) = 3
    /\ history.calls[3].result = None

\* C11: once run_selection has returned, the optimal setting of the fold is a candidate
\* whose performance was fed back during this run_selection, no fed-back performance is
\* higher on the primary metric, and every candidate evaluated before it scored lower.
C11_OptimalIsBestFedBack ==
    fold_frame # NoFrame /\ trace # <<>> =>
        LET calls == history.calls
            fed == 2 .. Len(calls)
            value(i) == calls[i].args[2][PrimaryLabel]
        IN  \E i \in fed :
               /\ calls[i].args[1] = fold_frame.optimal_hp_setting
               /\ \A j \in fed : ~RatLess(value(i), value(j))
               /\ \A j \in fed : j < i => RatLess(value(j), value(i))

\* C14: when run() has returned, the train-and-assess process of run_setting has been
\* executed once for every (outer fold, candidate setting, inner fold) and for nothing
\* else: assessment.split_count x |candidates| x selection.split_count runs in total,
\* no triple twice.
C14_EveryTripleOnce ==
    pc = "done" =>
        LET runs == history.setting_runs
        IN  /\ Len(runs) =
                  assessment.split_count * Len(hp_settings) * selection.split_count
            /\ \A i, j \in DOMAIN runs : i # j => runs[i] # runs[j]
            /\ Range(runs) = (1 .. assessment.split_count) \X Range(hp_settings)
                                 \X (1 .. selection.split_count)

\* C16: every path written during a run is written on behalf of one (outer fold, setting,
\* inner fold) only: no two run_setting calls share a directory, no two outer folds share
\* a run directory, and no per-fold artifact or report path is written by two of them.
C16_UniquePaths ==
    Cardinality({w.path : w \in history.writes}) = Cardinality(history.writes)

C16_Witness ==
    /\ pc = "done"
    /\ \E w \in history.writes : w.run = 2 /\ w.path = PredictionsPath(AssessmentPath(2))
    /\ \E v, w \in history.writes : v.hp_setting = 1 /\ w.hp_setting = 2 /\ v.run = w.run

C18_AssessedMethodFitOnOuterTrain ==
    pc = "assess_performance" =>
        /\ fold_frame.optimal_method = fold_frame.optimal_hp_setting
        /\ ml_methods[fold_frame.optimal_method] =
              [hp_setting |-> fold_frame.optimal_hp_setting,
               fitted_on |-> fold_frame.train_dataset,
               encoded_with |-> [fitted_on |-> fold_frame.train_dataset,
                                 result_path |-> fold_frame.current_path]]

C18_Witness ==
    /\ pc = "assess_performance"
    /\ fold_frame.run = 2
    /\ fold_frame.train_dataset # assessment_frame.train_datasets[1]
    /\ \E i \in DOMAIN history.setting_runs :
          history.setting_runs[i][2] = fold_frame.optimal_hp_setting

\* C19: asked for the optimal setting while not started or in progress, the strategy
\* answers with an IllegalStateError and stays as it is; run_selection asks only of an
\* exhausted strategy, so no run ever ends with that error.
C19_NoPrematureOptimalRequest ==
    /\ hp_strategy.state \in {"NotStarted", "InProgress"} =>
          /\ get_optimal_hps(hp_strategy).error = <<"IllegalStateError">>
          /\ get_optimal_hps(hp_strategy).strategy = hp_strategy
    /\ pc = "get_optimal_hps" => hp_strategy.state = "Exhausted"
    /\ error # <<>> => error[1].kind # "IllegalStateError"

C19_Witness ==
    /\ pc = "get_optimal_hps"
    /\ hp_strategy.state = "Exhausted"
    /\ Len(hp_strategy.recorded) = 2
    /\ get_optimal_hps(hp_strategy).error = <<>>
    /\ get_optimal_hps(hp_strategy).result \in Range(hp_settings)

C20_ErrorCarriesFoldAndSetting ==
    error # <<>> =>
        /\ error[1].run # 0 => <<"fold", error[1].run>> \in error[1].context
        /\ error[1].hp_setting # None =>
              <<"setting", error[1].hp_setting>> \in error[1].context

\* The assess step is deterministic: in the second run() it gives an outer fold the
\* performance it gave it in the first whenever it is handed the same method state and the
\* same encoded dataset.
DeterministicSteps ==
    \A k \in DOMAIN history.assessed :
        /\ history.assessed[k].method = history.first_run.assessed[k].method
        /\ history.assessed[k].dataset = history.first_run.assessed[k].dataset
        => history.assessed[k].performance = history.first_run.assessed[k].performance

\* C13: when a second run() on the same process object has returned, the splitter having
\* returned the split of the first run (RunAgain) and the steps being deterministic, the
\* list it returns is the list the first run returned.
C13_RerunIdempotent ==
    /\ pc = "done"
    /\ history.runs = 2
    /\ DeterministicSteps
    => returned[1] = history.first_run.returned

C13_Witness ==
    /\ pc = "done"
    /\ history.runs = 2
    /\ DeterministicSteps
    /\ Len(returned[1]) = 2
    /\ Len(hp_settings) = 2
    /\ returned[1][1] # returned[1][2]
    /\ history.split.train_datasets[1] # history.split.train_datasets[2]

\* C12: with the outer folds executed in parallel, every fold's performance record is the
\* one sequential execution computes for it: its method was fitted on this fold's
\* outer-train dataset, and its outer-test dataset was encoded by the encoder state fitted
\* on this fold's outer-train dataset under this fold's path.
C12_ParallelFoldsAsSequential ==
    (fold_frame # NoFrame /\ fold_frame.assessed # <<>>) =>
        /\ fold_frame.assessed.method =
              [hp_setting |-> fold_frame.optimal_hp_setting,
               fitted_on |-> fold_frame.train_dataset,
               encoded_with |-> [fitted_on |-> fold_frame.train_dataset,
                                 result_path |-> fold_frame.current_path]]
        /\ fold_frame.assessed.dataset.encoded_with =
              [fitted_on |-> fold_frame.train_dataset,
               result_path |-> fold_frame.current_path]

\* C25: within one outer fold the inner splits are computed once, before the first
\* candidate is requested, and stay as they are until run_selection returns; every
\* candidate's inner fold i learns on the i-th inner train dataset and is assessed on the
\* i-th inner test dataset of that one split, whatever was fed back to the strategy.
C25_SameInnerFoldsForEveryCandidate ==
    [][/\ (selection_frame # NoFrame /\ selection_frame' # NoFrame) =>
             /\ selection_frame'.train_datasets = selection_frame.train_datasets
             /\ selection_frame'.test_datasets = selection_frame.test_datasets
       /\ pc' = "get_first_setting" =>
             /\ Len(selection_frame'.train_datasets) = selection.split_count
             /\ Len(selection_frame'.test_datasets) = selection.split_count
             /\ history'.calls = <<>>
       /\ Len(history'.inner_records) = Len(history.inner_records) + 1 =>
             LET record == history'.inner_records[Len(history'.inner_records)]
             IN  /\ record.hp_setting = selection_frame.hp_setting
                 /\ record.learnt_on = selection_frame.train_datasets[record.run_id]
                 /\ record.assessed_on = selection_frame.test_datasets[record.run_id]]_vars

C25_Witness ==
    /\ pc = "test_hp_setting"
    /\ selection_frame.hp_setting = 2
    /\ Len(history.inner_records) = 2
    /\ selection_frame.train_datasets[1] # selection_frame.train_datasets[2]
    /\ Len(hp_strategy.recorded) = 1

\* C26: run_selection runs the selection reports only after the strategy signalled
\* exhaustion and before the optimal setting is requested, once per outer fold and never
\* while candidates are still requested or evaluated; the invocations are, per data-split
\* report, the inner train and test dataset of every inner fold in order, and then the
\* data reports on the whole outer-train dataset.
C26_SelectionReportsAfterExhaustion ==
    LET done == history.selection_reports
        last == history.selection_report
        dsr == selection.reports.data_split_reports
        dr == selection.reports.data_reports
        k == selection.split_count
    IN  /\ pc = "run_selection_reports" =>
              /\ hp_strategy.state = "Exhausted"
              /\ selection_frame.hp_setting = None
              /\ history.optimal_requests = 0
        /\ pc \in {"get_first_setting", "get_next_setting", "test_hp_setting",
                    "run_selection_reports"} =>
              \A e \in DOMAIN done : done[e] # fold_frame.run
        /\ \A e, f \in DOMAIN done : done[e] = done[f] => e = f
        /\ last # <<>> =>
              /\ last.state = "Exhausted"
              /\ last.optimal_requests = 0
              /\ Len(last.calls) = Len(dsr) * 2 * k + Len(dr)
              /\ \A j \in DOMAIN last.calls :
                    LET call == last.calls[j]
                        r == (j - 1) \div (2 * k) + 1
                        i == ((j - 1) % (2 * k)) \div 2 + 1
                    IN  IF j <= Len(dsr) * 2 * k
                        THEN /\ call.report = dsr[r]
                             /\ call.dataset = IF (j - 1) % 2 = 0
                                               THEN last.train_datasets[i]
                                               ELSE last.test_datasets[i]
                        ELSE /\ call.report = dr[j - Len(dsr) * 2 * k]
                             /\ call.dataset = last.train_dataset

C26_Witness ==
    /\ pc = "get_optimal_hps"
    /\ selection.split_count = 2
    /\ Len(hp_strategy.recorded) = 2
    /\ history.selection_reports = <<1>>
    /\ Len(history.selection_report.calls) = 5

\* C27: running reports never changes a configured report object: after any number of
\* folds every report object of the two SplitConfigs has the fields it was configured
\* with; and the object generate_report runs on has the dataset(s), method and path of
\* its own invocation, all of the current outer fold, and nothing of another invocation.
C27_ConfiguredReportsUntouched ==
    /\ report_objects = [report \in Reports |-> ConfiguredReport]
    /\ (history.generated # <<>> /\ fold_frame # NoFrame) =>
          /\ history.generated.run = fold_frame.run
          /\ Len(history.generated.reports) = Len(history.generated.calls)
          /\ \A i \in DOMAIN history.generated.reports :
                LET call == history.generated.calls[i]
                    report == history.generated.reports[i]
                    within == fold_frame.train_dataset \cup fold_frame.test_dataset
                IN  /\ report.path = call.path
                    /\ SubSeq(report.path, 1, 2) = fold_frame.current_path
                    /\ IF call.kind = "data"
                       THEN report = [ConfiguredReport EXCEPT !.dataset = call.dataset,
                                                              !.path = call.path]
                       ELSE report = [ConfiguredReport EXCEPT
                                         !.train_dataset = fold_frame.train_dataset,
                                         !.test_dataset = fold_frame.test_dataset,
                                         !.method = fold_frame.optimal_method,
                                         !.path = call.path]
                    /\ report.dataset \subseteq within

C27_Witness ==
    /\ pc = "fold_return"
    /\ fold_frame.run = 2
    /\ Len(history.generated.reports) = 3
    /\ history.selection_reports = <<1, 2>>
    /\ fold_frame.train_dataset # assessment_frame.train_datasets[1]

C29_FilenamesSorted ==
    LET filenames == get_filenames(dataset_object)
    IN  /\ \A i \in 1 .. Len(filenames) - 1 : ~PathLess(filenames[i + 1], filenames[i])
        /\ IF caller_filenames = <<>>
           THEN filenames = <<>> /\ get_repertoire_count(dataset_object) = 0
           ELSE /\ get_repertoire_count(dataset_object) = Len(caller_filenames[1].passed)
                /\ Range(filenames) = Range(caller_filenames[1].passed)
                /\ caller_filenames[1].now = caller_filenames[1].passed

C29_Witness ==
    /\ object_calls = 2
    /\ caller_filenames # <<>>
    /\ caller_filenames[1].passed = <<<<2, 1>>, <<1, 2>>>>
    /\ get_filenames(dataset_object) = <<<<1, 2>>, <<2, 1>>>>
    /\ dataset_object.encoded_data # None

\* The fields of a Dataset other than encoded_data.
RawFields(d) == [filenames |-> d.filenames, id |-> d.id, params |-> d.params,
                 data |-> d.data, metadata_file |-> d.metadata_file]

\* C21: a step that changes the encoded data of a Dataset changes nothing else of it
\* (filenames, id, params, data, metadata_file); the datasets of a fold name, after every
\* step of the loops, the samples they named when the splitter returned them, and the
\* encoded dataset an encode step returns differs from the dataset it was given in the
\* encoded data only.
C21_EncodingAdditive ==
    [][/\ dataset_object'.encoded_data # dataset_object.encoded_data =>
             RawFields(dataset_object') = RawFields(dataset_object)
       /\ fold_datasets' # <<>> =>
             /\ fold_datasets'.train.filenames = fold_datasets'.returned.train.filenames
             /\ fold_datasets'.test.filenames = fold_datasets'.returned.test.filenames
             /\ fold_datasets'.encoded # <<>> =>
                   LET encoded == fold_datasets'.encoded[1]
                   IN  RawFields(encoded.dataset) = RawFields(fold_datasets'[encoded.of])]_vars

C21_Witness ==
    /\ dataset_object.encoded_data # None
    /\ Len(dataset_object.filenames) = 2
    /\ fold_datasets # <<>>
    /\ Len(fold_datasets.train.filenames) = 1
    /\ fold_datasets.encoded # <<>>
    /\ fold_datasets.encoded[1].of = "test"
    /\ fold_datasets.encoded[1].dataset.encoded_data = 2

\* The positions of the input dataset's repertoires in which every sequence has the chain
\* keep_chain, and the path process gives a kept repertoire.
KeptIndices ==
    {i \in DOMAIN processed[1].input.filenames :
        \A chain \in processed[1].files[processed[1].input.filenames[i]].chains :
            chain = upper(processed[1].params.keep_chain)}

KeptFilename(i) ==
    <<processed[1].params.result_path,
      processed[1].files[processed[1].input.filenames[i]].identifier>>

\* C22: the dataset process returns contains exactly the repertoires of the input dataset
\* in which every sequence has the chain keep_chain, each exactly once: it has as many
\* filenames as there are such repertoires, no filename twice, and for every such
\* repertoire k the file result_path + '<identifier of k>.pickle' is among them and holds k.
C22_FilterKeepsExactlyMatching ==
    (processed # <<>> /\ processed[1].error = <<>>) =>
        LET result == processed[1].dataset.filenames
        IN  /\ Len(result) = Cardinality(KeptIndices)
            /\ \A i, j \in DOMAIN result : result[i] = result[j] => i = j
            /\ \A i \in KeptIndices :
                  /\ KeptFilename(i) \in Range(result)
                  /\ files[KeptFilename(i)] =
                        processed[1].files[processed[1].input.filenames[i]]
            /\ Range(result) = {KeptFilename(i) : i \in KeptIndices}

\* C28: process leaves its input dataset as it was: after the call the input dataset has
\* the filename list and the metadata_file it had, and every filename of it names an
\* existing repertoire file.
C28_FilterLeavesInput ==
    (processed # <<>> /\ processed[1].error = <<>>) =>
        /\ dataset_object.filenames = processed[1].input.filenames
        /\ dataset_object.metadata_file = processed[1].input.metadata_file
        /\ \A i \in DOMAIN dataset_object.filenames :
              files[dataset_object.filenames[i]] # NoFile

\* C30: constructed with an hp_settings list that has an element which is not an
\* HPSetting, the process fails with an AssertionError with only dataset, selection and
\* hp_strategy assigned and no split, encode or train step made; constructed with a list
\* of HPSetting objects only, the empty list included, every field is assigned, as given,
\* and no AssertionError is raised.
C30_ConstructorRejectsNonSettings ==
    pc # "new" /\ arguments # <<>> =>
        IF \E i \in DOMAIN arguments.hp_settings : arguments.hp_settings[i] \notin HPSettings
        THEN /\ pc = "failed"
             /\ error[1].kind = "AssertionError"
             /\ attributes = {"dataset", "selection", "hp_strategy"}
             /\ history = NoHistory
             /\ \A s \in HPSettings : encoders[s] = NotFitted /\ ml_methods[s] = <<>>
        ELSE /\ attributes = {"dataset", "selection", "hp_strategy", "hp_settings", "path",
                              "batch_size", "label_configuration", "metrics", "assessment"}
             /\ hp_settings = arguments.hp_settings
             /\ assessment = arguments.assessment
             /\ dataset = arguments.dataset
             /\ selection = arguments.selection
             /\ error # <<>> => error[1].kind # "AssertionError"

C30_Witness ==
    /\ pc = "failed"
    /\ arguments.hp_settings = <<1, None>>
    /\ error[1].kind = "AssertionError"
    /\ hp_settings = <<>>

====
